---- MODULE Spec2Model ----
(***************************************************************************)
(* Model of GraphBuilder (src/graph_builder.py): the emoji co-occurrence   *)
(* graph built from a reviews DataFrame.                                   *)
(*                                                                         *)
(* A string is a sequence of one-character strings; a token is such a      *)
(* sequence without whitespace.  A cell of the `emojis` column is a record *)
(* [kind, val]: kind "str" (val = the characters), "nan" (None / NaN),     *)
(* "num" (a number) or "list" (a Python list; val names its items, the     *)
(* item "nan" being a missing value).                                      *)
(***************************************************************************)
EXTENDS Integers, Sequences, FiniteSets, TLC

VARIABLES reviews, reviews0, graph, edge_counter, emoji_freq, status, last, builds

vars == <<reviews, reviews0, graph, edge_counter, emoji_freq, status, last, builds>>

(* ------------------------------ bounds -------------------------------- *)

MaxReviews == 2

MaxBuilds == 2

(* ------------------------------ strings ------------------------------- *)

Space == " "

Ord(c) == CASE c = " " -> 32 [] c = "a" -> 97 [] c = "b" -> 98 [] OTHER -> 127

IsSpace(c) == c = Space

RECURSIVE StrLess(_, _)
StrLess(s, t) ==
  IF t = <<>> THEN FALSE
  ELSE IF s = <<>> THEN TRUE
  ELSE IF Ord(Head(s)) < Ord(Head(t)) THEN TRUE
  ELSE IF Ord(Head(s)) > Ord(Head(t)) THEN FALSE
  ELSE StrLess(Tail(s), Tail(t))

Range(s) == {s[i] : i \in DOMAIN s}

(* str.split() with no argument: maximal runs of non-whitespace, in order  *)
RECURSIVE SplitFrom(_, _, _)
SplitFrom(s, cur, acc) ==
  IF s = <<>> THEN (IF cur = <<>> THEN acc ELSE Append(acc, cur))
  ELSE IF IsSpace(Head(s))
       THEN SplitFrom(Tail(s), <<>>, IF cur = <<>> THEN acc ELSE Append(acc, cur))
       ELSE SplitFrom(Tail(s), Append(cur, Head(s)), acc)

split(s) == SplitFrom(s, <<>>, <<>>)

(* str.strip(): drop leading and trailing whitespace                       *)
RECURSIVE LStrip(_)
LStrip(s) == IF s # <<>> /\ IsSpace(Head(s)) THEN LStrip(Tail(s)) ELSE s

RECURSIVE RStrip(_)
RStrip(s) ==
  IF s # <<>> /\ IsSpace(s[Len(s)]) THEN RStrip(SubSeq(s, 1, Len(s) - 1)) ELSE s

strip(s) == RStrip(LStrip(s))

(* ' '.join(tokens), as the crawler writes the field                       *)
RECURSIVE join(_)
join(ts) ==
  IF ts = <<>> THEN <<>>
  ELSE IF Len(ts) = 1 THEN ts[1]
  ELSE ts[1] \o <<Space>> \o join(Tail(ts))

(* ------------------------------ cells --------------------------------- *)

Str(cs) == [kind |-> "str", val |-> cs]

NaN == [kind |-> "nan", val |-> <<>>]

Num == [kind |-> "num", val |-> <<>>]

List(items) == [kind |-> "list", val |-> items]

(* pd.isna(x): a bool for a scalar, an element-wise array for a list       *)
isna(x) ==
  IF x.kind = "list" THEN [i \in DOMAIN x.val |-> x.val[i] = "nan"]
  ELSE <<x.kind = "nan">>

(* truth value of pd.isna(x) in `if`: an array of two or more elements     *)
(* raises ValueError, an empty array is false (or raises, by numpy version)*)
Truth(arr) ==
  IF Len(arr) = 1 THEN (IF arr[1] THEN "true" ELSE "false")
  ELSE IF Len(arr) = 0 THEN "false"
  ELSE "raise"

Raise == [raised |-> TRUE, value |-> <<>>]

Return(v) == [raised |-> FALSE, value |-> v]

parse_emojis(x) ==
  LET t == Truth(isna(x)) IN
  IF t = "raise" THEN Raise
  ELSE IF t = "true" THEN Return(<<>>)
  ELSE IF x.kind # "str" THEN Raise
  ELSE LET parts == split(x.val) IN Return([i \in DOMAIN parts |-> strip(parts[i])])

(* ---------------------------- DataFrame -------------------------------- *)

(* a DataFrame is a function from column names to columns (sequences)      *)
NRows(df) == Len(df["emojis"])

(* df[name] = col: adds the column or overwrites it, other columns kept    *)
SetColumn(df, name, col) ==
  [c \in DOMAIN df \cup {name} |-> IF c = name THEN col ELSE df[c]]

(* the DataFrame without row i                                             *)
DropRow(df, i) ==
  [c \in DOMAIN df |->
     [j \in 1..(Len(df[c]) - 1) |-> IF j < i THEN df[c][j] ELSE df[c][j + 1]]]

(* Series.apply(parse_emojis): raises as soon as one cell raises           *)
apply_parse(col) ==
  IF \E i \in DOMAIN col : parse_emojis(col[i]).raised THEN Raise
  ELSE Return([i \in DOMAIN col |-> parse_emojis(col[i]).value])

(* ------------------------------ Counter ------------------------------- *)

EmptyCounter == <<>>

Get(c, k) == IF k \in DOMAIN c THEN c[k] ELSE 0

Inc(c, k) == [x \in DOMAIN c \cup {k} |-> IF x = k THEN Get(c, k) + 1 ELSE c[x]]

RECURSIVE IncAll(_, _)
IncAll(c, ks) == IF ks = <<>> THEN c ELSE IncAll(Inc(c, Head(ks)), Tail(ks))

(* variant: the distinct tokens in order of first occurrence, not sorted   *)
RECURSIVE unique_in_order(_)
unique_in_order(xs) ==
  IF xs = <<>> THEN <<>>
  ELSE LET front == unique_in_order(SubSeq(xs, 1, Len(xs) - 1))
           x == xs[Len(xs)]
       IN IF x \in Range(front) THEN front ELSE Append(front, x)

(* sorted(set(xs)) in string order                                         *)
Min(S) == CHOOSE m \in S : \A x \in S : x = m \/ StrLess(m, x)

RECURSIVE SortSet(_)
SortSet(S) == IF S = {} THEN <<>> ELSE LET m == Min(S) IN <<m>> \o SortSet(S \ {m})

sorted_set(xs) == SortSet(Range(xs))

(* variant: combinations_with_replacement(s, 2), pairs of positions i <= j *)
RECURSIVE combinations2_wr(_)
combinations2_wr(s) ==
  IF s = <<>> THEN <<>>
  ELSE [j \in 1..Len(s) |-> <<s[1], s[j]>>] \o combinations2_wr(Tail(s))

(* itertools.combinations(s, 2): pairs of positions i < j, in order        *)
RECURSIVE combinations2(_)
combinations2(s) ==
  IF Len(s) < 2 THEN <<>>
  ELSE [j \in 1..(Len(s) - 1) |-> <<s[1], s[j + 1]>>] \o combinations2(Tail(s))

(* variant: pairs taken over the sorted token list, repeats not collapsed  *)
count_review_noset(c, emojis) ==
  IF Len(emojis) < 2 THEN c
  ELSE IncAll(c, combinations2(SortSeq(emojis, StrLess)))

(* one pass of the loop body of create_nodes                               *)
count_review(c, emojis) ==
  IF Len(emojis) < 2 THEN c
  ELSE IncAll(c, combinations2(sorted_set(emojis)))

RECURSIVE count_pairs(_, _)
count_pairs(c, lists) ==
  IF lists = <<>> THEN c
  ELSE count_pairs(count_review(c, Head(lists)), Tail(lists))

(* variant: rows with a missing emojis value are dropped from the          *)
(* DataFrame before parsing                                                *)
RECURSIVE DropNaFrom(_, _)
DropNaFrom(df, i) ==
  IF i = 0 THEN df
  ELSE IF df["emojis"][i].kind = "nan" THEN DropNaFrom(DropRow(df, i), i - 1)
  ELSE DropNaFrom(df, i - 1)

create_nodes_dropna(df) ==
  LET d == DropNaFrom(df, NRows(df))
      col == apply_parse(d["emojis"])
  IN IF col.raised THEN [raised |-> TRUE, df |-> d, counter |-> EmptyCounter]
     ELSE [raised |-> FALSE,
           df |-> SetColumn(d, "emoji_list", col.value),
           counter |-> count_pairs(EmptyCounter, col.value)]

(* create_nodes: the new DataFrame and the returned Counter, or a raise    *)
create_nodes(df) ==
  LET col == apply_parse(df["emojis"]) IN
  IF col.raised THEN [raised |-> TRUE, df |-> df, counter |-> EmptyCounter]
  ELSE [raised |-> FALSE,
        df |-> SetColumn(df, "emoji_list", col.value),
        counter |-> count_pairs(EmptyCounter, col.value)]

(* Counter(e for emojis in column for e in emojis)                         *)
RECURSIVE Flatten(_)
Flatten(lists) == IF lists = <<>> THEN <<>> ELSE Head(lists) \o Flatten(Tail(lists))

(* variant: each review counts a token once                                *)
frequency_dedup(lists) ==
  IncAll(EmptyCounter, Flatten([i \in DOMAIN lists |-> sorted_set(lists[i])]))

frequency(lists) == IncAll(EmptyCounter, Flatten(lists))

(* ------------------------------- Graph -------------------------------- *)

NoAttrs == <<>>

(* nx.Graph(): node -> attribute dict, unordered pair of nodes -> dict     *)
EmptyGraph == [node |-> <<>>, adj |-> <<>>]

SetAttr(d, name, v) == [a \in DOMAIN d \cup {name} |-> IF a = name THEN v ELSE d[a]]

(* variant: the weight attribute is always 1                               *)
add_edge_unit(G, u, v, w) ==
  LET e == {u, v}
      old == IF e \in DOMAIN G.adj THEN G.adj[e] ELSE NoAttrs
  IN [node |-> [n \in DOMAIN G.node \cup {u, v} |->
                  IF n \in DOMAIN G.node THEN G.node[n] ELSE NoAttrs],
      adj |-> [x \in DOMAIN G.adj \cup {e} |->
                  IF x = e THEN SetAttr(old, "weight", 1) ELSE G.adj[x]]]

(* variant: the weight is added to the weight the edge already has         *)
add_edge_accum(G, u, v, w) ==
  LET e == {u, v}
      old == IF e \in DOMAIN G.adj THEN G.adj[e] ELSE NoAttrs
      sum == IF "weight" \in DOMAIN old THEN old["weight"] + w ELSE w
  IN [node |-> [n \in DOMAIN G.node \cup {u, v} |->
                  IF n \in DOMAIN G.node THEN G.node[n] ELSE NoAttrs],
      adj |-> [x \in DOMAIN G.adj \cup {e} |->
                  IF x = e THEN SetAttr(old, "weight", sum) ELSE G.adj[x]]]

(* Graph.add_edge(u, v, weight=w): creates missing endpoints, then updates *)
(* the edge's attribute dict                                               *)
add_edge(G, u, v, w) ==
  LET e == {u, v}
      old == IF e \in DOMAIN G.adj THEN G.adj[e] ELSE NoAttrs
  IN [node |-> [n \in DOMAIN G.node \cup {u, v} |->
                  IF n \in DOMAIN G.node THEN G.node[n] ELSE NoAttrs],
      adj |-> [x \in DOMAIN G.adj \cup {e} |->
                  IF x = e THEN SetAttr(old, "weight", w) ELSE G.adj[x]]]

(* for (e1, e2), weight in edge_counter.items(): add_edge                  *)
RECURSIVE add_edges(_, _, _)
add_edges(G, c, keys) ==
  IF keys = {} THEN G
  ELSE LET k == CHOOSE x \in keys : TRUE
       IN add_edges(add_edge(G, k[1], k[2], c[k]), c, keys \ {k})

(* variant: a key of values that is not a node is added as a node          *)
set_node_attributes_adding(G, values, name) ==
  [node |-> [n \in DOMAIN G.node \cup DOMAIN values |->
               LET d == IF n \in DOMAIN G.node THEN G.node[n] ELSE NoAttrs
               IN IF n \in DOMAIN values THEN SetAttr(d, name, values[n]) ELSE d],
   adj |-> G.adj]

(* nx.set_node_attributes(G, values, name): nodes not in G are skipped     *)
set_node_attributes(G, values, name) ==
  [node |-> [n \in DOMAIN G.node |->
               IF n \in DOMAIN values THEN SetAttr(G.node[n], name, values[n])
               ELSE G.node[n]],
   adj |-> G.adj]

(* build_graph on graph G and DataFrame df                                 *)
build_graph(G, df) ==
  LET r == create_nodes(df) IN
  IF r.raised THEN [raised |-> TRUE, df |-> df, counter |-> EmptyCounter,
                    freq |-> EmptyCounter, graph |-> G]
  ELSE LET G1 == add_edges(G, r.counter, DOMAIN r.counter)
           f == frequency(r.df["emoji_list"])
       IN [raised |-> FALSE, df |-> r.df, counter |-> r.counter,
           freq |-> f, graph |-> set_node_attributes(G1, f, "frequency")]

(* ------------------------------ inputs -------------------------------- *)

(* token lists of reviews: none, one token, one token repeated, two tokens  *)
(* in both orders, a pair with a repeat, a longer token alone and before   *)
(* its prefix, three tokens out of order                                   *)
TokenLists ==
  {<<>>,
   <<(<<"a">>)>>,
   <<(<<"a">>), (<<"a">>), (<<"a">>)>>,
   <<(<<"a">>), (<<"b">>)>>,
   <<(<<"b">>), (<<"a">>)>>,
   <<(<<"a">>), (<<"b">>), (<<"a">>)>>,
   <<(<<"a", "b">>)>>,
   <<(<<"a", "b">>), (<<"a">>)>>,
   <<(<<"b">>)>>,
   <<(<<"b">>), (<<"a", "b">>), (<<"a">>)>>}

(* the field as the crawler writes it: ' '.join of the review's emojis     *)
JoinedFields == {Str(join(ts)) : ts \in TokenLists}

(* other cells a DataFrame can hold: a missing value, a string with        *)
(* irregular whitespace, and values that are not strings                   *)
OtherFields ==
  {NaN,
   Str(<<" ", "a", " ", " ", "b", " ">>),
   Num, List(<<"x", "y">>), List(<<"nan">>)}

Fields == JoinedFields \cup OtherFields

Corpora == UNION {[1..n -> Fields] : n \in 0..MaxReviews}

DataFrame(col) == [emojis |-> col, rating |-> [i \in DOMAIN col |-> 5]]

(* --------------------------- state machine ---------------------------- *)

(* the state right after GraphBuilder(reviews) on the first DataFrame      *)
Init ==
  /\ \E col \in Corpora : reviews = DataFrame(col)
  /\ reviews0 = reviews
  /\ graph = EmptyGraph
  /\ edge_counter = EmptyCounter
  /\ emoji_freq = EmptyCounter
  /\ status = "new"
  /\ last = "init"
  /\ builds = 0

(* the caller calls create_nodes()                                         *)
CreateNodes ==
  LET r == create_nodes(reviews) IN
  /\ reviews' = r.df
  /\ edge_counter' = r.counter
  /\ status' = IF r.raised THEN "raised" ELSE "done"
  /\ last' = "create_nodes"
  /\ UNCHANGED <<reviews0, graph, emoji_freq, builds>>

(* the caller calls build_graph()                                          *)
BuildGraph ==
  LET r == build_graph(graph, reviews) IN
  /\ builds < MaxBuilds
  /\ reviews' = r.df
  /\ edge_counter' = r.counter
  /\ emoji_freq' = r.freq
  /\ graph' = r.graph
  /\ status' = IF r.raised THEN "raised" ELSE "done"
  /\ last' = "build_graph"
  /\ builds' = builds + 1
  /\ UNCHANGED reviews0

(* the caller removes row i of the DataFrame between two calls             *)
DropReview ==
  \E i \in 1..NRows(reviews) :
    /\ reviews' = DropRow(reviews, i)
    /\ reviews0' = DropRow(reviews0, i)
    /\ last' = "drop"
    /\ UNCHANGED <<graph, edge_counter, emoji_freq, status, builds>>

(* GraphBuilder(reviews) again, on the DataFrame the caller holds: keeps   *)
(* the DataFrame object and makes a new empty graph                        *)
NewBuilder ==
  /\ reviews' = reviews
  /\ reviews0' = reviews
  /\ graph' = EmptyGraph
  /\ edge_counter' = EmptyCounter
  /\ emoji_freq' = EmptyCounter
  /\ status' = "new"
  /\ last' = "init"
  /\ builds' = 0

Next == CreateNodes \/ BuildGraph \/ NewBuilder

Spec == Init /\ [][Next]_vars

NextChange == CreateNodes \/ BuildGraph \/ NewBuilder \/ DropReview

SpecChange == Init /\ [][NextChange]_vars

(* ----------------------------- properties ----------------------------- *)

Called == last \in {"create_nodes", "build_graph"}

Returned == Called /\ status = "done"

Built == last = "build_graph" /\ status = "done"

(* the parsed token list of review i, and its set of tokens                *)
TokensOf(i) == parse_emojis(reviews["emojis"][i]).value

TokenSetOf(i) == Range(TokensOf(i))

CorpusTokens == UNION {TokenSetOf(i) : i \in 1..NRows(reviews)}

KeyTokens(c) == {k[1] : k \in DOMAIN c} \cup {k[2] : k \in DOMAIN c}

ReviewsWithBoth(a, b) == {i \in 1..NRows(reviews) : a \in TokenSetOf(i) /\ b \in TokenSetOf(i)}

Occurrences(t) ==
  UNION {{<<i, j>> : j \in {x \in DOMAIN TokensOf(i) : TokensOf(i)[x] = t}} :
           i \in 1..NRows(reviews)}

HasRepeat(i) == Len(TokensOf(i)) > Cardinality(TokenSetOf(i))

(* C1: the counter returned by create_nodes holds, for every two distinct  *)
(* tokens a < b, the number of reviews whose token set contains both, and  *)
(* has no entry for a pair that co-occurs in no review                     *)
C1_PairCount ==
  Returned =>
    \A a \in CorpusTokens \cup KeyTokens(edge_counter) :
      \A b \in CorpusTokens \cup KeyTokens(edge_counter) :
        StrLess(a, b) =>
          LET n == Cardinality(ReviewsWithBoth(a, b)) IN
          IF n > 0
          THEN <<a, b>> \in DOMAIN edge_counter /\ edge_counter[<<a, b>>] = n
          ELSE <<a, b>> \notin DOMAIN edge_counter

C1_Witness ==
  /\ Returned
  /\ \E k \in DOMAIN edge_counter : edge_counter[k] = 2
  /\ \E i \in 1..NRows(reviews) : HasRepeat(i) /\ Cardinality(TokenSetOf(i)) >= 2

(* C2: the frequency map of build_graph holds, for every token, the number *)
(* of its occurrences over all token lists, repeats inside one review      *)
(* counted separately                                                      *)
C2_Frequency ==
  Built =>
    /\ DOMAIN emoji_freq = CorpusTokens
    /\ \A t \in CorpusTokens : emoji_freq[t] = Cardinality(Occurrences(t))

C2_Witness ==
  /\ Built
  /\ \E i \in 1..NRows(reviews) :
       /\ TokensOf(i) = <<(<<"a">>), (<<"a">>), (<<"a">>)>>
       /\ emoji_freq[<<"a">>] >= 4

Degree(G, n) == Cardinality({e \in DOMAIN G.adj : n \in e})

CoOccurs(t) == \E i \in 1..NRows(reviews) : t \in TokenSetOf(i) /\ TokenSetOf(i) # {t}

(* C3: after build_graph on a fresh GraphBuilder the nodes are exactly the *)
(* tokens of the pair-count entries; every node has degree >= 1 and is a   *)
(* key of the frequency map; a token that never co-occurs with a different *)
(* token is not a node                                                     *)
C3_NodeSet ==
  (Built /\ builds = 1) =>
    /\ DOMAIN graph.node = KeyTokens(edge_counter)
    /\ \A n \in DOMAIN graph.node : Degree(graph, n) >= 1 /\ n \in DOMAIN emoji_freq
    /\ \A t \in CorpusTokens : ~CoOccurs(t) => t \notin DOMAIN graph.node

C3_Witness ==
  /\ Built /\ builds = 1
  /\ DOMAIN graph.node # {}
  /\ \E t \in DOMAIN emoji_freq : emoji_freq[t] > 0 /\ t \notin DOMAIN graph.node

EdgeOf(k) == {k[1], k[2]}

(* C4: after build_graph on a fresh GraphBuilder the graph has exactly one *)
(* edge per pair-count entry, with the entry's count as weight, and every  *)
(* node carries the frequency of its token                                 *)
C4_EdgesAndFrequency ==
  (Built /\ builds = 1) =>
    /\ DOMAIN graph.adj = {EdgeOf(k) : k \in DOMAIN edge_counter}
    /\ Cardinality(DOMAIN graph.adj) = Cardinality(DOMAIN edge_counter)
    /\ \A k \in DOMAIN edge_counter :
         /\ "weight" \in DOMAIN graph.adj[EdgeOf(k)]
         /\ graph.adj[EdgeOf(k)]["weight"] = edge_counter[k]
    /\ \A n \in DOMAIN graph.node :
         /\ "frequency" \in DOMAIN graph.node[n]
         /\ graph.node[n]["frequency"] = emoji_freq[n]

C4_Witness ==
  /\ Built /\ builds = 1
  /\ Cardinality(DOMAIN graph.adj) = 3
  /\ \E e \in DOMAIN graph.adj : graph.adj[e]["weight"] = 2
  /\ \E n \in DOMAIN graph.node : graph.node[n]["frequency"] = 3

Malformed(x) == x.kind # "str" \/ x.val = <<>>

(* C5: parse_emojis returns an empty list for every missing, empty or      *)
(* non-string value, so a call of create_nodes or build_graph on a corpus  *)
(* with such a record completes                                            *)
C5_MalformedTolerated ==
  Called =>
    /\ status = "done"
    /\ \A i \in 1..NRows(reviews) :
         Malformed(reviews["emojis"][i])
           => parse_emojis(reviews["emojis"][i]) = Return(<<>>)

FreshGraph(col) == build_graph(EmptyGraph, DataFrame(col)).graph

(* C6: the graph returned by build_graph is the graph a fresh GraphBuilder *)
(* builds on the corpus held at that call                                  *)
C6_RebuiltFromCorpus == Built => graph = FreshGraph(reviews["emojis"])

(* C7: a build_graph call on a GraphBuilder that has already built leaves  *)
(* the graph as it was, on an unchanged corpus, and that graph is the one  *)
(* a fresh GraphBuilder builds on the same reviews                         *)
C7_Idempotent ==
  [][(builds >= 1 /\ builds' = builds + 1 /\ status' = "done")
       => (graph' = graph /\ graph' = FreshGraph(reviews["emojis"]))]_vars

C7_Witness ==
  /\ Built /\ builds = 2
  /\ \E e \in DOMAIN graph.adj : graph.adj[e]["weight"] = 2
  /\ \E n \in DOMAIN graph.node : graph.node[n]["frequency"] >= 2

(* C8 as stated: the reviews collection is the same before and after the   *)
(* calls                                                                   *)
C8_ReviewsUnchanged == reviews = reviews0

OtherColumns(df) == DOMAIN df \ {"emoji_list"}

(* C8 amended: every column other than emoji_list is as the caller passed  *)
(* it, and a completed call has written the parsed token lists to the      *)
(* column emoji_list                                                       *)
C8_OnlyEmojiListWritten ==
  /\ OtherColumns(reviews) = OtherColumns(reviews0)
  /\ \A c \in OtherColumns(reviews0) : reviews[c] = reviews0[c]
  /\ Returned =>
       /\ "emoji_list" \in DOMAIN reviews
       /\ reviews["emoji_list"] = [i \in 1..NRows(reviews0) |-> TokensOf(i)]

C8_Witness ==
  /\ Returned
  /\ "emoji_list" \in DOMAIN reviews /\ "emoji_list" \notin DOMAIN reviews0
  /\ \E i \in 1..NRows(reviews) : Len(reviews["emoji_list"][i]) >= 2

CounterWithout(i) ==
  count_pairs(EmptyCounter, [j \in 1..NRows(DropRow(reviews, i)) |->
                               parse_emojis(DropRow(reviews, i)["emojis"][j]).value])

(* C9: a review with fewer than 2 distinct tokens adds nothing to the pair *)
(* counter: the counter is the one of the corpus without that review       *)
C9_NoPairFromOneToken ==
  Returned =>
    \A i \in 1..NRows(reviews) :
      Cardinality(TokenSetOf(i)) < 2 => edge_counter = CounterWithout(i)

C9_Witness ==
  /\ Returned
  /\ DOMAIN edge_counter # {}
  /\ \E i \in 1..NRows(reviews) : Len(TokensOf(i)) >= 2 /\ Cardinality(TokenSetOf(i)) = 1

(* C10: every key (e1, e2) of the pair counter has e1 < e2 in string order *)
(* (no token paired with itself, no pair under both orders) and the graph  *)
(* has no self-loop                                                        *)
C10_CanonicalKeys ==
  /\ Returned =>
       \A k \in DOMAIN edge_counter :
         /\ StrLess(k[1], k[2])
         /\ k[1] # k[2]
         /\ <<k[2], k[1]>> \notin DOMAIN edge_counter
  /\ \A e \in DOMAIN graph.adj : Cardinality(e) = 2

C10_Witness ==
  /\ Built
  /\ <<(<<"a">>), (<<"a", "b">>)>> \in DOMAIN edge_counter
  /\ <<(<<"a", "b">>), (<<"b">>)>> \in DOMAIN edge_counter
  /\ {<<"a">>, <<"a", "b">>} \in DOMAIN graph.adj

====
